---- MODULE Spec2Model ----
(***************************************************************************)
(* A model of the bungie_client package: the response interpreter          *)
(* (utils.handle_bungie_response), the URL joiner (utils.build_url), the    *)
(* player-search request builder (BungieClient.search_destiny_player) and  *)
(* the throttled request gateway (BungieClient._make_request).             *)
(*                                                                         *)
(* Time is in milliseconds.  Strings that the code only copies or formats  *)
(* are TLA+ strings; strings that the code inspects character by character *)
(* (URLs, paths, platform names, header values) are sequences of           *)
(* one-character strings.                                                  *)
(***************************************************************************)
EXTENDS Integers, Sequences, FiniteSets, TLC

VARIABLES
    \* ---- utils.handle_bungie_response applied to one decoded envelope
    envelope,       \* the decoded JSON object handed to the interpreter
    interp,         \* what the interpreter did with it
    ipc,            \* "ready" | "done"
    \* ---- utils.build_url applied to one base URL and one path
    base_url,       \* the base URL, a sequence of characters
    path,           \* the endpoint path, a sequence of characters
    joined,         \* the URL build_url returned
    upc,            \* "ready" | "done"
    \* ---- BungieClient.search_destiny_player applied to one name and platform
    display_name,   \* the Bungie name searched for, a sequence of characters
    platform,       \* [given, name]: the platform argument, None when not given
    issued,         \* the requests this call handed to _make_request, in order
    spc,            \* "ready" | "done"
    \* ---- BungieClient._make_request on one session, called by two tasks
    now,                \* what time.time() reads, in milliseconds
    last_request_time,  \* self._last_request_time, in milliseconds
    session,            \* the rest of the session: api_key, base_url, timeout
    pc,                 \* per caller: "idle" | "sleeping" | "inflight" | "done"
    call,               \* per caller: the record of its current (or last) call
    reply,              \* per caller: what the transport answered
    result,             \* per caller: what _make_request returned or raised
    ended               \* the latest dispatch times among the calls that ended

envVars == <<envelope, interp, ipc>>
urlVars == <<base_url, path, joined, upc>>
searchVars == <<display_name, platform, issued, spc>>
clientVars == <<now, last_request_time, session, pc, call, reply, result, ended>>
notEnvVars == <<urlVars, searchVars, clientVars>>
notUrlVars == <<envVars, searchVars, clientVars>>
notSearchVars == <<envVars, urlVars, clientVars>>
notClientVars == <<envVars, urlVars, searchVars>>
vars == <<envVars, urlVars, searchVars, clientVars>>

(***************************************************************************)
(* JSON / Python values.  Every value is a record [t, n, s] so that values *)
(* of different Python types can be compared: t is the type tag, n the     *)
(* number (or the number of members of a container), s the text.           *)
(***************************************************************************)
Val(t, n, s) == [t |-> t, n |-> n, s |-> s]
Absent       == Val("absent", 0, "")     \* the key is not in the dict
None         == Val("null", 0, "")       \* Python None / JSON null
IntVal(n)    == Val("int", n, "")
StrVal(s)    == Val("str", 0, s)
BoolVal(b)   == Val("bool", IF b THEN 1 ELSE 0, "")
ObjVal(n, s) == Val("obj", n, s)         \* a dict with n members, contents s
ListVal(n, s) == Val("list", n, s)       \* a list with n items, contents s

\* Python truth value of a value: bool(v).
Truthy(v) ==
    CASE v.t = "null"  -> FALSE
      [] v.t = "bool"  -> v.n = 1
      [] v.t = "int"   -> v.n # 0
      [] v.t = "str"   -> v.s # ""
      [] v.t = "obj"   -> v.n > 0
      [] v.t = "list"  -> v.n > 0

\* Python `v == 1`: an int 1 or the bool True (True == 1 in Python).
PyEqualsOne(v) == v.t \in {"int", "bool"} /\ v.n = 1

\* Python str(v), as an f-string formats a value.
PyStr(v) ==
    CASE v.t = "str"   -> v.s
      [] v.t = "int"   -> ToString(v.n)
      [] v.t = "null"  -> "None"
      [] v.t = "bool"  -> IF v.n = 1 THEN "True" ELSE "False"
      [] OTHER         -> v.s

\* dict.get(key): None when the key is absent.
Get(d, key) == IF d[key].t = "absent" THEN None ELSE d[key]
\* dict.get(key, default): the default only when the key is absent.
GetDefault(d, key, default) == IF d[key].t = "absent" THEN default ELSE d[key]

(***************************************************************************)
(* Outcomes of a call: a returned payload or a raised exception.           *)
(* `response` is what the exception carries: nothing, the decoded envelope *)
(* or the raw HTTP response.                                               *)
(***************************************************************************)
NoEnvelope == [Response |-> Absent, ErrorCode |-> Absent,
               ErrorStatus |-> Absent, Message |-> Absent]
NoBody     == [t |-> "none", env |-> NoEnvelope]
NoHttp     == [status |-> 0, hasRetry |-> FALSE, retry |-> <<>>, body |-> NoBody]

Carried(t, env, http) == [t |-> t, env |-> env, http |-> http]
CarriesNothing     == Carried("none", NoEnvelope, NoHttp)
CarriesEnvelope(e) == Carried("envelope", e, NoHttp)
CarriesHttp(r)     == Carried("http", NoEnvelope, r)

Outcome(kind, message, code, carried, value, whole) ==
    [kind |-> kind, message |-> message, error_code |-> code,
     response |-> carried, value |-> value, whole |-> whole]

NoOutcome == Outcome("none", "", None, CarriesNothing, Absent, NoEnvelope)

\* exceptions.BungieAPIException.__init__(message, error_code=None, response=None)
BungieAPIException(message, code, carried) ==
    Outcome("BungieAPIException", message, code, carried, Absent, NoEnvelope)

\* exceptions.BungieRateLimitException: a subclass that adds nothing
BungieRateLimitException(message, code, carried) ==
    Outcome("BungieRateLimitException", message, code, carried, Absent, NoEnvelope)

\* an exception that is none of the package's: it passes through _make_request
Escapes(kind) == Outcome(kind, "", None, CarriesNothing, Absent, NoEnvelope)

\* a returned inner payload (the value of the Response key)
ReturnValue(v) == Outcome("return", "", None, CarriesNothing, v, NoEnvelope)
\* the whole envelope returned unchanged
ReturnWhole(e) == Outcome("return", "", None, CarriesNothing, Absent, e)

(***************************************************************************)
(* utils.handle_bungie_response                                            *)
(***************************************************************************)
\* The same with `or` for `and`: a plausible slip.
IsErrorEnvelopeOr(data) ==
    ~Truthy(Get(data, "Response")) \/ ~PyEqualsOne(Get(data, "ErrorCode"))

\* The condition of the `if`: not data.get('Response') and data.get('ErrorCode') != 1
IsErrorEnvelope(data) ==
    ~Truthy(Get(data, "Response")) /\ ~PyEqualsOne(Get(data, "ErrorCode"))

\* The same with dict.get(key) for dict.get(key, default): the defaults lost.
handle_bungie_response_no_defaults(data) ==
    IF IsErrorEnvelope(data)
    THEN BungieAPIException(PyStr(Get(data, "ErrorStatus")) \o ": "
                                \o PyStr(Get(data, "Message")),
                            Get(data, "ErrorCode"), CarriesEnvelope(data))
    ELSE IF data["Response"].t = "absent"
         THEN ReturnWhole(data)
         ELSE ReturnValue(data["Response"])

handle_bungie_response(data) ==
    IF IsErrorEnvelope(data)
    THEN LET error_status == GetDefault(data, "ErrorStatus", StrVal("Unknown Error"))
             error_code   == GetDefault(data, "ErrorCode", IntVal(0))
             message      == GetDefault(data, "Message",
                                        StrVal("No error message provided"))
         IN  BungieAPIException(PyStr(error_status) \o ": " \o PyStr(message),
                                error_code, CarriesEnvelope(data))
    ELSE IF data["Response"].t = "absent"
         THEN ReturnWhole(data)
         ELSE ReturnValue(data["Response"])

(***************************************************************************)
(* The envelopes the interpreter is tried on.                              *)
(***************************************************************************)
ResponseValues ==
    { Absent, None, ObjVal(0, "{}"), ObjVal(1, "{x: 1}"), ListVal(0, "[]"),
      ListVal(1, "[7]"), StrVal(""), StrVal("ok"), IntVal(0), IntVal(7),
      BoolVal(FALSE), BoolVal(TRUE) }
ErrorCodeValues   == { Absent, None, IntVal(0), IntVal(1), IntVal(5), StrVal("1") }
ErrorStatusValues == { Absent, StrVal("Unauthorized"), StrVal("") }
MessageValues     == { Absent, StrVal("bad key") }

Envelopes ==
    [Response : ResponseValues, ErrorCode : ErrorCodeValues,
     ErrorStatus : ErrorStatusValues, Message : MessageValues]

EnvInit ==
    /\ envelope \in Envelopes
    /\ interp = NoOutcome
    /\ ipc = "ready"

\* One call of handle_bungie_response(envelope).
Interpret ==
    /\ ipc = "ready"
    /\ interp' = handle_bungie_response(envelope)
    /\ ipc' = "done"
    /\ UNCHANGED <<envelope, notEnvVars>>

EnvIdle ==
    /\ envelope = NoEnvelope
    /\ interp = NoOutcome
    /\ ipc = "off"

(***************************************************************************)
(* Claims about handle_bungie_response (checked under SpecEnvelope).       *)
(***************************************************************************)
\* "Empty" in the everyday sense: null, an empty string, an empty container.
\* A number or a boolean is a value, not an empty one.
IsEmptyValue(v) ==
    \/ v.t = "null"
    \/ v.t = "str" /\ v.s = ""
    \/ v.t \in {"obj", "list"} /\ v.n = 0

\* "Empty" as Python's truth test has it: also the number 0 and false.
IsFalsyValue(v) ==
    \/ IsEmptyValue(v)
    \/ v.t \in {"int", "bool"} /\ v.n = 0

ResponsePresent(e) == e.Response # Absent
ErrorCodeIsOne(e)  == e.ErrorCode = IntVal(1)

\* What a successful interpretation must return.
ReturnsAsSpecified(e, out) ==
    /\ out.kind = "return"
    /\ ResponsePresent(e)  => out.value = e.Response /\ out.whole = NoEnvelope
    /\ ~ResponsePresent(e) => out.value = Absent /\ out.whole = e

\* C5 as stated: the interpreter succeeds exactly when Response is present and
\* non-empty or ErrorCode equals 1; on success it returns the value of Response
\* when the key is present and the whole envelope otherwise.
C5_SuccessIffNonEmptyOrCodeOne ==
    ipc = "done" =>
        LET ok == (ResponsePresent(envelope) /\ ~IsEmptyValue(envelope.Response))
                  \/ ErrorCodeIsOne(envelope)
        IN  /\ (interp.kind = "return") <=> ok
            /\ ok => ReturnsAsSpecified(envelope, interp)

\* C5 amended: the interpreter succeeds exactly when Response is present and
\* true under Python's truth test (not null, false, 0, "" or an empty container)
\* or ErrorCode equals 1; what it returns on success is as stated.
C5_SuccessIffTruthyOrCodeOne ==
    ipc = "done" =>
        LET ok == (ResponsePresent(envelope) /\ ~IsFalsyValue(envelope.Response))
                  \/ ErrorCodeIsOne(envelope)
        IN  /\ (interp.kind = "return") <=> ok
            /\ ok => ReturnsAsSpecified(envelope, interp)

\* {"ErrorCode": 1} was interpreted and came back whole.
C5_Witness ==
    /\ ipc = "done"
    /\ envelope = [Response |-> Absent, ErrorCode |-> IntVal(1),
                   ErrorStatus |-> Absent, Message |-> Absent]
    /\ interp.kind = "return"
    /\ interp.whole = envelope

\* C6: for every envelope that is not a success envelope the interpreter raises
\* BungieAPIException with message "<ErrorStatus>: <Message>", error_code the
\* envelope's ErrorCode and response the full envelope; a missing ErrorStatus
\* reads "Unknown Error", a missing ErrorCode 0, a missing Message
\* "No error message provided".
C6_FailureCarriesEnvelopeFields ==
    (/\ ipc = "done"
     /\ ~ErrorCodeIsOne(envelope)
     /\ ~ResponsePresent(envelope) \/ IsFalsyValue(envelope.Response))
    =>
        LET status == IF envelope.ErrorStatus = Absent THEN "Unknown Error"
                      ELSE envelope.ErrorStatus.s
            text   == IF envelope.Message = Absent THEN "No error message provided"
                      ELSE envelope.Message.s
            code   == IF envelope.ErrorCode = Absent THEN IntVal(0)
                      ELSE envelope.ErrorCode
        IN  /\ interp.kind = "BungieAPIException"
            /\ interp.message = status \o ": " \o text
            /\ interp.error_code = code
            /\ interp.response = CarriesEnvelope(envelope)

\* {"ErrorCode": 5, "ErrorStatus": "Unauthorized", "Message": "bad key"} raised
\* "Unauthorized: bad key" with code 5.
C6_Witness ==
    /\ ipc = "done"
    /\ envelope = [Response |-> Absent, ErrorCode |-> IntVal(5),
                   ErrorStatus |-> StrVal("Unauthorized"),
                   Message |-> StrVal("bad key")]
    /\ interp.kind = "BungieAPIException"
    /\ interp.message = "Unauthorized: bad key"
    /\ interp.error_code = IntVal(5)

(***************************************************************************)
(* Character strings: str.lstrip, str.rstrip, str.split, str.join.         *)
(***************************************************************************)
\* The one element of a singleton set.  {F(x) : x \in {e}} evaluates e once and
\* binds x to its value, where a LET definition or an operator argument would
\* be evaluated again at each use.
Only(S) == CHOOSE x \in S : TRUE

RECURSIVE LStrip(_, _)
LStrip(text, c) ==
    Only({ IF str # <<>> /\ Head(str) = c THEN LStrip(Tail(str), c) ELSE str :
           str \in {text} })

RECURSIVE RStrip(_, _)
RStrip(text, c) ==
    Only({ IF str # <<>> /\ str[Len(str)] = c
           THEN RStrip(SubSeq(str, 1, Len(str) - 1), c)
           ELSE str :
           str \in {text} })

\* str.find(c) + 1: the position of the first c, 0 when there is none.
IndexOf(str, c) ==
    IF \E i \in 1..Len(str) : str[i] = c
    THEN CHOOSE i \in 1..Len(str) : str[i] = c /\ \A j \in 1..(i - 1) : str[j] # c
    ELSE 0

RECURSIVE Split(_, _)
Split(text, c) ==
    Only({ IF i = 0 THEN <<str>>
           ELSE <<SubSeq(str, 1, i - 1)>> \o Split(SubSeq(str, i + 1, Len(str)), c) :
           <<str, i>> \in {<<text, IndexOf(text, c)>>} })

RECURSIVE Join(_, _)
Join(segs, c) ==
    Only({ IF parts = <<>> THEN <<>>
           ELSE IF Len(parts) = 1 THEN parts[1]
           ELSE parts[1] \o <<c>> \o Join(Tail(parts), c) :
           parts \in {segs} })

StartsWith(str, prefix) ==
    Len(str) >= Len(prefix) /\ SubSeq(str, 1, Len(prefix)) = prefix

(***************************************************************************)
(* urllib.parse.urljoin, which build_url calls (CPython 3.11), for URLs    *)
(* without '?' and ';': urlsplit, urlunsplit and the RFC 3986 resolution   *)
(* of the path.                                                            *)
(***************************************************************************)
LowerLetters == {"a", "b", "c", "d", "e", "h", "i", "m", "n", "o", "p", "s", "t", "x"}
UpperLetters == {"A", "B", "C", "D", "E", "I", "M", "N", "O", "P", "S", "T", "X"}
Digits       == {"0", "1", "2", "3", "4", "5", "6", "7", "8", "9"}
SchemeChars  == LowerLetters \cup UpperLetters \cup Digits \cup {"+", "-", "."}
\* urllib.parse.uses_relative and uses_netloc, as far as the model's schemes go
UsesRelative == {<<>>, <<"h", "t", "t", "p">>, <<"h", "t", "t", "p", "s">>}
UsesNetloc   == UsesRelative

\* urlsplit: the scheme, when the text before the first ':' is one
SchemeEnd(url) ==
    Only({ IF /\ colon > 1
              /\ url[1] \in LowerLetters \cup UpperLetters
              /\ \A k \in 1..(colon - 1) : url[k] \in SchemeChars
           THEN colon ELSE 0 :
           colon \in {IndexOf(url, ":")} })

\* urlsplit: the end of the netloc that follows '//'
NetlocEnd(rest) ==
    Only({ IF delims = {} THEN Len(rest) + 1
           ELSE CHOOSE k \in delims : \A m \in delims : k <= m :
           delims \in {{k \in 1..Len(rest) : rest[k] \in {"/", "#"}}} })

\* urlsplit: netloc, path and fragment of what follows the scheme
SplitAfterScheme(scheme, rest) ==
    IF StartsWith(rest, <<"/", "/">>)
    THEN Only({ Only({ [scheme   |-> scheme,
                        netloc   |-> SubSeq(after, 1, netEnd - 1),
                        path     |-> IF hash = 0 THEN tail
                                     ELSE SubSeq(tail, 1, hash - 1),
                        fragment |-> IF hash = 0 THEN <<>>
                                     ELSE SubSeq(tail, hash + 1, Len(tail))] :
                       <<tail, hash>> \in
                           {<<SubSeq(after, netEnd, Len(after)),
                              IndexOf(SubSeq(after, netEnd, Len(after)), "#")>>} }) :
                <<after, netEnd>> \in
                    {<<SubSeq(rest, 3, Len(rest)),
                       NetlocEnd(SubSeq(rest, 3, Len(rest)))>>} })
    ELSE Only({ [scheme   |-> scheme,
                 netloc   |-> <<>>,
                 path     |-> IF hash = 0 THEN rest ELSE SubSeq(rest, 1, hash - 1),
                 fragment |-> IF hash = 0 THEN <<>>
                              ELSE SubSeq(rest, hash + 1, Len(rest))] :
                hash \in {IndexOf(rest, "#")} })

\* urlsplit(url, scheme): [scheme, netloc, path, fragment]
urlsplit(text, default_scheme) ==
    Only({ IF colon > 0
           THEN SplitAfterScheme(SubSeq(url, 1, colon - 1),
                                 SubSeq(url, colon + 1, Len(url)))
           ELSE SplitAfterScheme(default_scheme, url) :
           <<url, colon>> \in {<<text, SchemeEnd(text)>>} })

\* urlunsplit((scheme, netloc, path, '', fragment))
urlunsplit(scheme, netloc, upath, fragment) ==
    LET withNet ==
            IF netloc # <<>>
               \/ (scheme # <<>> /\ scheme \in UsesNetloc
                   /\ ~StartsWith(upath, <<"/", "/">>))
            THEN <<"/", "/">> \o netloc
                 \o (IF upath # <<>> /\ Head(upath) # "/" THEN <<"/">> ELSE <<>>)
                 \o upath
            ELSE upath
        withScheme == IF scheme # <<>> THEN scheme \o <<":">> \o withNet ELSE withNet
    IN  IF fragment # <<>> THEN withScheme \o <<"#">> \o fragment ELSE withScheme

\* segments[1:-1] = filter(None, segments[1:-1]): empty inner segments dropped
RECURSIVE DropEmpty(_)
DropEmpty(segs) ==
    Only({ IF parts = <<>> THEN <<>>
           ELSE IF Head(parts) = <<>> THEN DropEmpty(Tail(parts))
           ELSE <<Head(parts)>> \o DropEmpty(Tail(parts)) :
           parts \in {segs} })

FilterInner(segments) ==
    IF Len(segments) <= 2 THEN segments
    ELSE <<segments[1]>> \o DropEmpty(SubSeq(segments, 2, Len(segments) - 1))
         \o <<segments[Len(segments)]>>

\* the loop over the segments: '..' pops, '.' is skipped
RECURSIVE ResolveDots(_, _)
ResolveDots(segs, sofar) ==
    Only({ IF segments = <<>> THEN resolved
           ELSE IF Head(segments) = <<".", ".">>
           THEN ResolveDots(Tail(segments),
                            IF resolved = <<>> THEN <<>>
                            ELSE SubSeq(resolved, 1, Len(resolved) - 1))
           ELSE IF Head(segments) = <<".">>
           THEN ResolveDots(Tail(segments), resolved)
           ELSE ResolveDots(Tail(segments), Append(resolved, Head(segments))) :
           <<segments, resolved>> \in {<<segs, sofar>>} })

\* the segments to resolve: the base's directory, then the relative path
JoinSegments(bpath, upath) ==
    IF Head(upath) = "/" THEN Split(upath, "/")
    ELSE Only({ FilterInner(
                    (IF base_parts[Len(base_parts)] # <<>>
                     THEN SubSeq(base_parts, 1, Len(base_parts) - 1)
                     ELSE base_parts)
                    \o Split(upath, "/")) :
                base_parts \in {Split(bpath, "/")} })

\* the resolved path, '/' when nothing is left
ResolvedPath(segs) ==
    Only({ IF joinedPath = <<>> THEN <<"/">> ELSE joinedPath :
           joinedPath \in
               { Only({ Join(IF segments[Len(segments)] \in {<<".">>, <<".", ".">>}
                             THEN Append(ResolveDots(segments, <<>>), <<>>)
                             ELSE ResolveDots(segments, <<>>),
                             "/") :
                        segments \in {segs} }) } })

\* urljoin once both URLs are split
JoinSplit(b, u, url) ==
    IF u.scheme # b.scheme \/ u.scheme \notin UsesRelative THEN url
    ELSE IF u.scheme \in UsesNetloc /\ u.netloc # <<>>
    THEN urlunsplit(u.scheme, u.netloc, u.path, u.fragment)
    ELSE IF u.path = <<>>
    THEN urlunsplit(u.scheme, b.netloc, b.path, u.fragment)
    ELSE urlunsplit(u.scheme, b.netloc,
                    ResolvedPath(JoinSegments(b.path, u.path)), u.fragment)

urljoin(base0, url0) ==
    Only({ IF base = <<>> THEN url
           ELSE IF url = <<>> THEN base
           ELSE Only({ Only({ JoinSplit(b, u, url) :
                              u \in {urlsplit(url, b.scheme)} }) :
                       b \in {urlsplit(base, <<>>)} }) :
           <<base, url>> \in {<<base0, url0>>} })

(***************************************************************************)
(* utils.build_url                                                         *)
(***************************************************************************)
build_url(base, p) == urljoin(RStrip(base, "/") \o <<"/">>, LStrip(p, "/"))

\* The longest endpoint path tried.
MaxPathLen == 4

PathChars == {"a", "/", ".", ":", "#"}

RECURSIVE StringsUpTo(_, _)
StringsUpTo(chars, n) ==
    IF n = 0 THEN {<<>>}
    ELSE Only({ shorter \cup {Append(str, c) : str \in shorter, c \in chars} :
                shorter \in {StringsUpTo(chars, n - 1)} })

\* A short stand-in for "https://www.bungie.net/Platform", with and without
\* a trailing slash.
ShortBase == <<"h", "t", "t", "p", "s", ":", "/", "/", "x", "/", "P">>
BaseUrls  == {ShortBase, ShortBase \o <<"/">>}

UrlInit ==
    /\ base_url \in BaseUrls
    /\ path \in StringsUpTo(PathChars, MaxPathLen)
    /\ joined = <<>>
    /\ upc = "ready"

\* One call of build_url(base_url, path).
BuildUrl ==
    /\ upc = "ready"
    /\ joined' = build_url(base_url, path)
    /\ upc' = "done"
    /\ UNCHANGED <<base_url, path, notUrlVars>>

UrlIdle ==
    /\ base_url = <<>>
    /\ path = <<>>
    /\ joined = <<>>
    /\ upc = "off"

\* C7: build_url(base, path) is the base without its trailing slash, one slash,
\* and the path without its leading slash, every other character of both kept
\* (also for paths with '..', '.', ':' or '#' in them).
C7_JoinPreservesBothStrings ==
    upc = "done" =>
        joined = RStrip(base_url, "/") \o <<"/">> \o LStrip(path, "/")

(***************************************************************************)
(* BungieClient.search_destiny_player                                      *)
(***************************************************************************)
\* str.lower() on one character
LowerChar(c) ==
    CASE c = "A" -> "a" [] c = "B" -> "b" [] c = "C" -> "c" [] c = "D" -> "d"
      [] c = "E" -> "e" [] c = "I" -> "i" [] c = "M" -> "m" [] c = "N" -> "n"
      [] c = "O" -> "o" [] c = "P" -> "p" [] c = "S" -> "s" [] c = "T" -> "t"
      [] c = "X" -> "x" [] OTHER -> c

\* str.lower() left out: the lookup made case-sensitive
LowerNot(str) == str

\* str.lower()
Lower(str) == [i \in 1..Len(str) |-> LowerChar(str[i])]

\* platform_map.get(key, "-1")
PlatformMapGet(key) ==
    CASE key = <<"x", "b", "o", "x">>   -> <<"1">>
      [] key = <<"p", "s", "n">>    -> <<"2">>
      [] key = <<"s", "t", "e", "a", "m">>  -> <<"3">>
      [] key = <<"s", "t", "a", "d", "i", "a">> -> <<"5">>
      [] key = <<"e", "p", "i", "c">>   -> <<"6">>
      [] OTHER            -> <<"-", "1">>

\* the membership type the platform argument resolves to
MembershipType(plat) ==
    IF plat.given /\ plat.name # <<>>          \* `if platform:`
    THEN PlatformMapGet(Lower(plat.name))
    ELSE <<"-", "1">>

SearchPrefix ==
    <<"/", "D", "e", "s", "t", "i", "n", "y", "2", "/", "S", "e", "a", "r", "c", "h">>
    \o <<"D", "e", "s", "t", "i", "n", "y", "P", "l", "a", "y", "e", "r", "/">>

\* the endpoint f-string
SearchEndpoint(name, plat) ==
    SearchPrefix \o MembershipType(plat) \o <<"/">> \o name

Request(method, endpoint) ==
    [method |-> method, endpoint |-> endpoint, params |-> "None", data |-> "None"]

NoPlatform   == [given |-> FALSE, name |-> <<>>]
Platform(n)  == [given |-> TRUE, name |-> n]

PlatformNames ==
    { <<>>,
      <<"x", "b", "o", "x">>,
      <<"X", "B", "O", "X">>,
      <<"X", "b", "o", "x">>,
      <<"p", "s", "n">>,
      <<"P", "S", "N">>,
      <<"P", "s", "n">>,
      <<"s", "t", "e", "a", "m">>,
      <<"S", "T", "E", "A", "M">>,
      <<"S", "t", "e", "a", "m">>,
      <<"s", "t", "a", "d", "i", "a">>,
      <<"S", "t", "a", "d", "i", "a">>,
      <<"e", "p", "i", "c">>,
      <<"E", "P", "I", "C">>,
      <<"p", "c">>,
      <<"x", "b", "o">>,
      <<"x", "b", "o", "x", "x">>,
      <<"e", "p", "i", "c", "s">>,
      <<"p", "s">>,
      <<"p", "-", "s", "-", "n">> }
Platforms == {NoPlatform} \cup {Platform(n) : n \in PlatformNames}

DisplayNames ==
    { <<"a">>, <<"N", "a", "m", "e", "#", "1", "2", "3", "4">>, <<"x", "b", "o", "x">> }

SearchInit ==
    /\ display_name \in DisplayNames
    /\ platform \in Platforms
    /\ issued = <<>>
    /\ spc = "ready"

\* One call of search_destiny_player(display_name, platform), up to the point
\* where it awaits _make_request('GET', endpoint).
SearchDestinyPlayer ==
    /\ spc = "ready"
    /\ issued' = Append(issued, Request("GET", SearchEndpoint(display_name, platform)))
    /\ spc' = "done"
    /\ UNCHANGED <<display_name, platform, notSearchVars>>

SearchIdle ==
    /\ display_name = <<>>
    /\ platform = NoPlatform
    /\ issued = <<>>
    /\ spc = "off"

\* C8: the membership type is read from the platform, whatever its case, by the
\* table xbox 1, psn 2, steam 3, stadia 5, epic 6; any other platform, the empty
\* string and no platform give -1; the call issues exactly one request, a GET to
\* /Destiny2/SearchDestinyPlayer/{membershipType}/{displayName}.
C8_PlatformTableAndSingleGet ==
    spc = "done" =>
        LET n == platform.name
            expected ==
                CASE ~platform.given -> <<"-", "1">>
                  [] n \in {<<"x", "b", "o", "x">>, <<"X", "B", "O", "X">>, <<"X", "b", "o", "x">>}  -> <<"1">>
                  [] n \in {<<"p", "s", "n">>, <<"P", "S", "N">>, <<"P", "s", "n">>}    -> <<"2">>
                  [] n \in {<<"s", "t", "e", "a", "m">>, <<"S", "T", "E", "A", "M">>, <<"S", "t", "e", "a", "m">>}  -> <<"3">>
                  [] n \in {<<"s", "t", "a", "d", "i", "a">>, <<"S", "t", "a", "d", "i", "a">>} -> <<"5">>
                  [] n \in {<<"e", "p", "i", "c">>, <<"E", "P", "I", "C">>}   -> <<"6">>
                  [] OTHER -> <<"-", "1">>
        IN  /\ Len(issued) = 1
            /\ issued[1].method = "GET"
            /\ issued[1].endpoint = SearchPrefix \o expected \o <<"/">> \o display_name

\* search_destiny_player("Name#1234", platform="PSN") asked for membership type 2.
C8_Witness ==
    /\ spc = "done"
    /\ platform = Platform(<<"P", "S", "N">>)
    /\ display_name = <<"N", "a", "m", "e", "#", "1", "2", "3", "4">>
    /\ issued[1].endpoint
         = SearchPrefix \o <<"2", "/">> \o display_name

(***************************************************************************)
(* BungieClient._make_request: the throttle, the transport call and the    *)
(* translation of what the transport answered.                             *)
(***************************************************************************)
\* self._min_time_between_requests = 0.1 (seconds), in milliseconds
min_time_between_requests == 100

\* the default of response.headers.get('Retry-After', 30)
DefaultRetryAfter == 30

\* What time.time() reads when the session is built.  _last_request_time starts
\* at 0, the epoch, which is long past: any start of at least
\* min_time_between_requests stands for it.
StartTime == 1000

\* How far the clock runs after StartTime, in steps of 50 ms.
Horizon == 4

\* The clock is read in steps of 50 ms.
ClockSteps == {50, 100}

Callers == {"A", "B"}

\* int(text): Python accepts an optional sign and decimal digits.
IsIntLiteral(text) ==
    LET body == IF text # <<>> /\ Head(text) \in {"+", "-"} THEN Tail(text) ELSE text
    IN  body # <<>> /\ \A k \in 1..Len(body) : body[k] \in Digits

DigitValue(c) == CHOOSE d \in 0..9 : ToString(d) = c

RECURSIVE DigitsValue(_)
DigitsValue(text) ==
    Only({ IF str = <<>> THEN 0
           ELSE 10 * DigitsValue(SubSeq(str, 1, Len(str) - 1))
                + DigitValue(str[Len(str)]) :
           str \in {text} })

ParseInt(text) ==
    IF Head(text) = "-" THEN 0 - DigitsValue(Tail(text))
    ELSE IF Head(text) = "+" THEN DigitsValue(Tail(text))
    ELSE DigitsValue(text)

\* The throttle left out.
ThrottleDelayNone(t, last) == 0

\* The sleep the throttle asks for at time t (0: none).
ThrottleDelay(t, last) ==
    LET time_since_last == t - last
    IN  IF time_since_last < min_time_between_requests
        THEN min_time_between_requests - time_since_last
        ELSE 0

\* The same for server errors only.
RaisesForStatusServerOnly(status) == status >= 500

\* response.raise_for_status() raises httpx.HTTPStatusError
RaisesForStatus(status) == status >= 400

\* Lines 61-79, after the transport returned response r: what the call ends
\* with, and whether the body went through handle_bungie_response.
Ends(out, interpreted) == [out |-> out, interpreted |-> interpreted]

AfterResponse(r) ==
    IF r.status = 429
    THEN IF r.hasRetry /\ ~IsIntLiteral(r.retry)
         THEN Ends(Escapes("ValueError"), FALSE)       \* int() of a non-number
         ELSE LET retry_after == IF r.hasRetry THEN ParseInt(r.retry)
                                 ELSE DefaultRetryAfter
              IN  Ends(BungieRateLimitException(
                           "Rate limit exceeded. Try again after "
                               \o ToString(retry_after) \o " seconds.",
                           None, CarriesHttp(r)),
                       FALSE)
    ELSE IF RaisesForStatus(r.status)
    THEN \* except httpx.HTTPStatusError; str(e) is httpx's text for the status
         Ends(BungieAPIException("HTTP error occurred: " \o ToString(r.status),
                                 IntVal(r.status), CarriesHttp(r)),
              FALSE)
    ELSE IF r.body.t = "notjson"
    THEN Ends(Escapes("JSONDecodeError"), FALSE)       \* response.json() raises
    ELSE IF r.body.t = "object"
    THEN Ends(handle_bungie_response(r.body.env), TRUE)
    ELSE Ends(Escapes("AttributeError"), TRUE)         \* no .get on a list

\* Line 82, except httpx.RequestError: no error_code, no response.
AfterRequestError ==
    Ends(BungieAPIException("Request error occurred: transport failure",
                            None, CarriesNothing),
         FALSE)

(***************************************************************************)
(* What the transport can answer.                                          *)
(***************************************************************************)
Body(t, env) == [t |-> t, env |-> env]
Http(status, hasRetry, retry, body) ==
    [status |-> status, hasRetry |-> hasRetry, retry |-> retry, body |-> body]

OkEnvelope    == [Response |-> ObjVal(1, "{x: 1}"), ErrorCode |-> IntVal(1),
                  ErrorStatus |-> StrVal("Success"), Message |-> StrVal("Ok")]
BareEnvelope  == [Response |-> Absent, ErrorCode |-> IntVal(1),
                  ErrorStatus |-> Absent, Message |-> Absent]
ErrorEnvelope == [Response |-> Absent, ErrorCode |-> IntVal(5),
                  ErrorStatus |-> StrVal("Unauthorized"),
                  Message |-> StrVal("bad key")]

Bodies ==
    { Body("notjson", NoEnvelope), Body("list", NoEnvelope),
      Body("object", OkEnvelope), Body("object", BareEnvelope),
      Body("object", ErrorEnvelope) }

RetryHeaders ==
    { <<FALSE, <<>>>>, <<TRUE, <<"4", "5">>>>, <<TRUE, <<"0", "7">>>>,
      <<TRUE, <<"W", "e", "d">>>> }

HttpResponses ==
    {Http(200, FALSE, <<>>, b) : b \in Bodies}
    \cup {Http(429, h[1], h[2], Body("notjson", NoEnvelope)) : h \in RetryHeaders}
    \cup {Http(429, TRUE, <<"4", "5">>, Body("object", OkEnvelope))}
    \cup {Http(st, FALSE, <<>>, b) :
            st \in {404, 500},
            b \in {Body("notjson", NoEnvelope), Body("object", ErrorEnvelope)}}

\* httpx.RequestError: connection error, timeout
RequestError == Http(0, FALSE, <<>>, Body("RequestError", NoEnvelope))

NoCall ==
    [read |-> 0, slept |-> FALSE, wake |-> 0, dispatched |-> 0, sent |-> 0,
     predAny |-> 0, predAnswered |-> 0, interpreted |-> FALSE,
     completed |-> 0, stamp |-> 0]

InitialSession == [api_key |-> "key", base_url |-> ShortBase, timeout |-> 30]

\* The session as __init__ leaves it, with the tasks in `active` about to call.
ClientStart(active) ==
    /\ now = StartTime
    /\ last_request_time = 0
    /\ session = InitialSession
    /\ pc = [c \in Callers |-> IF c \in active THEN "idle" ELSE "off"]
    /\ call = [c \in Callers |-> NoCall]
    /\ reply = [c \in Callers |-> NoHttp]
    /\ result = [c \in Callers |-> NoOutcome]
    /\ ended = [any |-> 0, answered |-> 0]

Max(a, b) == IF a >= b THEN a ELSE b

\* A caller's call record at entry: the timestamp read, the sleep asked for, and
\* the latest dispatch among the calls that had ended by then.
Entering(delay) ==
    [NoCall EXCEPT !.read = last_request_time,
                   !.slept = delay > 0, !.wake = now + delay,
                   !.predAny = ended.any, !.predAnswered = ended.answered]

\* Lines 46-58 when the throttle does not sleep: the check, build_url and the
\* transport call run without a suspension point between them.
EnterAndDispatch(c) ==
    /\ pc[c] \in {"idle", "done"}
    /\ ThrottleDelay(now, last_request_time) = 0
    /\ call' = [call EXCEPT ![c] =
                   [Entering(0) EXCEPT !.dispatched = now, !.sent = 1]]
    /\ pc' = [pc EXCEPT ![c] = "inflight"]
    /\ reply' = [reply EXCEPT ![c] = NoHttp]
    /\ result' = [result EXCEPT ![c] = NoOutcome]
    /\ UNCHANGED <<now, last_request_time, session, ended, notClientVars>>

\* Lines 46-48 when the throttle sleeps: the caller is suspended in asyncio.sleep.
EnterAndSleep(c) ==
    /\ pc[c] \in {"idle", "done"}
    /\ ThrottleDelay(now, last_request_time) > 0
    /\ call' = [call EXCEPT ![c] = Entering(ThrottleDelay(now, last_request_time))]
    /\ pc' = [pc EXCEPT ![c] = "sleeping"]
    /\ reply' = [reply EXCEPT ![c] = NoHttp]
    /\ result' = [result EXCEPT ![c] = NoOutcome]
    /\ UNCHANGED <<now, last_request_time, session, ended, notClientVars>>

\* Lines 50-58 after the sleep: the timestamp is not read again.
WakeAndDispatch(c) ==
    /\ pc[c] = "sleeping"
    /\ now >= call[c].wake
    /\ call' = [call EXCEPT ![c].dispatched = now, ![c].sent = @ + 1]
    /\ pc' = [pc EXCEPT ![c] = "inflight"]
    /\ UNCHANGED <<now, last_request_time, session, reply, result, ended, notClientVars>>

\* Lines 59-79: the transport returned a response.
Respond(c, r) ==
    /\ pc[c] = "inflight"
    /\ last_request_time' = now
    /\ LET e == AfterResponse(r)
       IN  /\ result' = [result EXCEPT ![c] = e.out]
           /\ call' = [call EXCEPT ![c].interpreted = e.interpreted,
                                   ![c].completed = now,
                                   ![c].stamp = last_request_time']
    /\ reply' = [reply EXCEPT ![c] = r]
    /\ pc' = [pc EXCEPT ![c] = "done"]
    /\ ended' = [any |-> Max(ended.any, call[c].dispatched),
                 answered |-> Max(ended.answered, call[c].dispatched)]
    /\ UNCHANGED <<now, session, notClientVars>>

\* Lines 81-82: the transport raised httpx.RequestError; line 59 never ran.
Fail(c) ==
    /\ pc[c] = "inflight"
    /\ LET e == AfterRequestError
       IN  /\ result' = [result EXCEPT ![c] = e.out]
           /\ call' = [call EXCEPT ![c].interpreted = e.interpreted,
                                   ![c].completed = now,
                                   ![c].stamp = last_request_time]
    /\ reply' = [reply EXCEPT ![c] = RequestError]
    /\ pc' = [pc EXCEPT ![c] = "done"]
    /\ ended' = [ended EXCEPT !.any = Max(@, call[c].dispatched)]
    /\ UNCHANGED <<now, last_request_time, session, notClientVars>>

\* Time passes.
Tick ==
    /\ \E d \in ClockSteps :
          /\ now + d <= StartTime + 50 * Horizon
          /\ now' = now + d
    /\ UNCHANGED <<last_request_time, session, pc, call, reply, result, ended, notClientVars>>

\* The answers tried when two tasks share the session: a payload, an HTTP
\* error and (by Fail) a transport failure.
FewResponses ==
    { Http(200, FALSE, <<>>, Body("object", OkEnvelope)),
      Http(404, FALSE, <<>>, Body("notjson", NoEnvelope)) }

ClientIdle == ClientStart({})

(***************************************************************************)
(* The specifications: the session under two callers, and each pure        *)
(* function applied to every input of its bounded domain.                  *)
(***************************************************************************)
\* One task calling _make_request again and again, each call after the last.
Init == ClientStart({"A"}) /\ EnvIdle /\ UrlIdle /\ SearchIdle
Next ==
    \/ EnterAndDispatch("A")
    \/ EnterAndSleep("A")
    \/ WakeAndDispatch("A")
    \/ \E r \in HttpResponses : Respond("A", r)
    \/ Fail("A")
    \/ Tick
Spec == Init /\ [][Next]_vars

\* Two tasks calling _make_request on the same session.
InitConcurrent == ClientStart(Callers) /\ EnvIdle /\ UrlIdle /\ SearchIdle
NextConcurrent ==
    \/ \E c \in Callers : EnterAndDispatch(c)
    \/ \E c \in Callers : EnterAndSleep(c)
    \/ \E c \in Callers : WakeAndDispatch(c)
    \/ \E c \in Callers : \E r \in FewResponses : Respond(c, r)
    \/ \E c \in Callers : Fail(c)
    \/ Tick
SpecConcurrent == InitConcurrent /\ [][NextConcurrent]_vars

InitEnvelope == EnvInit /\ UrlIdle /\ SearchIdle /\ ClientIdle
SpecEnvelope == InitEnvelope /\ [][Interpret]_vars

InitUrl == UrlInit /\ EnvIdle /\ SearchIdle /\ ClientIdle
SpecUrl == InitUrl /\ [][BuildUrl]_vars

InitSearch == SearchInit /\ EnvIdle /\ UrlIdle /\ ClientIdle
SpecSearch == InitSearch /\ [][SearchDestinyPlayer]_vars

(***************************************************************************)
(* Claims about _make_request.                                             *)
(***************************************************************************)
Dispatched(c) == pc[c] \in {"inflight", "done"}
Answered(c)   == pc[c] = "done" /\ reply[c] # RequestError
ClassifiedKinds ==
    {"BungieAPIException", "BungieRateLimitException", "BungieMaintenanceException"}

\* C1: in a sequence of calls each made after the last has ended, a call is
\* dispatched at least 100 ms after the one before it, however that one ended
\* (checked under Spec, where one task calls again and again).
C1_SequentialDispatchesSpaced ==
    \A c \in Callers :
        (Dispatched(c) /\ call[c].predAny # 0)
        => call[c].dispatched - call[c].predAny >= min_time_between_requests

\* C2: a call that does not return a payload ends with one of the three
\* classified exceptions, whatever the transport answered.
C2_OnlyClassifiedErrors ==
    \A c \in Callers :
        pc[c] = "done" => result[c].kind \in ClassifiedKinds \cup {"return"}

\* C3: on HTTP 429 the call raises BungieRateLimitException, its message gives
\* the integer of the Retry-After header (30 without the header), it carries
\* the raw response, the body is not interpreted and the call is sent once.
C3_RateLimitOn429 ==
    \A c \in Callers :
        (Answered(c) /\ reply[c].status = 429) =>
            /\ result[c].kind = "BungieRateLimitException"
            /\ result[c].message =
                 "Rate limit exceeded. Try again after "
                 \o (CASE ~reply[c].hasRetry -> "30"
                       [] reply[c].hasRetry /\ reply[c].retry = <<"4", "5">> -> "45"
                       [] reply[c].hasRetry /\ reply[c].retry = <<"0", "7">> -> "7"
                       [] OTHER -> "?")
                 \o " seconds."
            /\ result[c].response = CarriesHttp(reply[c])
            /\ ~call[c].interpreted
            /\ call[c].sent = 1

\* C4: on an HTTP status of 400 or more other than 429 the call raises
\* BungieAPIException with error_code the status and response the raw
\* response, and the body never reaches handle_bungie_response; on a transport
\* failure the BungieAPIException has error_code None and response None.
C4_HttpAndTransportErrors ==
    \A c \in Callers :
        /\ (Answered(c) /\ reply[c].status >= 400 /\ reply[c].status # 429) =>
              /\ result[c].kind = "BungieAPIException"
              /\ result[c].error_code = IntVal(reply[c].status)
              /\ result[c].response = CarriesHttp(reply[c])
              /\ ~call[c].interpreted
        /\ (pc[c] = "done" /\ reply[c] = RequestError) =>
              /\ result[c].kind = "BungieAPIException"
              /\ result[c].error_code = None
              /\ result[c].response = CarriesNothing

\* A 404 whose body is an error envelope was raised as BungieAPIException 404,
\* the envelope left unread.
C4_Witness ==
    /\ pc["A"] = "done"
    /\ reply["A"] = Http(404, FALSE, <<>>, Body("object", ErrorEnvelope))
    /\ result["A"].kind = "BungieAPIException"
    /\ result["A"].error_code = IntVal(404)
    /\ ~call["A"].interpreted

\* C9: once the transport call of a call has completed, whichever way the call
\* ends, the last-request timestamp was set to the completion time, and nothing
\* else of the session changed.
C9_TimestampSetOnEveryCompletion ==
    \A c \in Callers :
        pc[c] = "done" =>
            /\ call[c].stamp = call[c].completed
            /\ session = InitialSession

\* C10: the spacing is kept towards every call that had been answered before
\* the call entered, and towards the timestamp the call read on entry; between
\* overlapping calls nothing keeps it (C10_Witness is such a pair).
C10_SpacingOnlyTowardsEarlierCalls ==
    \A c \in Callers :
        Dispatched(c) =>
            /\ call[c].dispatched - call[c].read >= min_time_between_requests
            /\ call[c].predAnswered # 0 =>
                 call[c].dispatched - call[c].predAnswered
                     >= min_time_between_requests

\* Both calls are in flight, both read the same timestamp, which neither has
\* written yet, neither slept, and they were dispatched less than 100 ms apart.
C10_Witness ==
    /\ pc["A"] = "inflight" /\ pc["B"] = "inflight"
    /\ call["A"].read = call["B"].read
    /\ last_request_time = call["A"].read
    /\ ~call["A"].slept /\ ~call["B"].slept
    /\ call["A"].dispatched - call["B"].dispatched < min_time_between_requests
    /\ call["B"].dispatched - call["A"].dispatched < min_time_between_requests

====
